---------------------------- MODULE Spec2Model ----------------------------
(***************************************************************************)
(* Model of discord_bot.py: the per-thread submission state machine run by *)
(* concurrently scheduled on_message coroutines, and the extractors and    *)
(* the two parse_number functions applied to their inputs.                 *)
(*                                                                         *)
(* Text is a sequence of one-character strings, so that the regular        *)
(* expressions and substring tests of the source are computed character by *)
(* character.  A coroutine is cut into one action per segment between two  *)
(* awaits that can be observed by another coroutine: discord.py runs every *)
(* on_message in a task of its own, so the coroutines of one thread        *)
(* interleave at their awaits.  An await after which the coroutine changes *)
(* nothing (a final message.reply, bot.process_commands) ends the segment  *)
(* it follows.  message.reply and attachment.read are taken to return;     *)
(* Image.open, bytes.decode and int may raise.  What is saved is recorded  *)
(* by its analytic type in the state machine; the numbers are those of the *)
(* extractor operators.                                                    *)
(***************************************************************************)
EXTENDS Integers, Sequences, FiniteSets, TLC

(***************************************************************************)
(* Bounds.                                                                 *)
(***************************************************************************)
\* Number of messages delivered to the bot in one behaviour.
MaxMsgs == 4
\* Number of tokens of an OCR text handed to the Instagram extractor.
MaxTokens == 2
\* Number of rows below the header row of a file handed to the YouTube
\* extractor.
MaxRows == 2
\* Number of characters of a string handed to parse_number.
MaxChars == 4

(***************************************************************************)
(* Characters and strings.                                                 *)
(***************************************************************************)
None == "None"

UpperChars == <<"A","B","C","D","E","F","G","H","I","J","K","L","M",
                "N","O","P","Q","R","S","T","U","V","W","X","Y","Z">>
LowerChars == <<"a","b","c","d","e","f","g","h","i","j","k","l","m",
                "n","o","p","q","r","s","t","u","v","w","x","y","z">>

\* str.lower() on one character
LowerTable ==
    [c \in {UpperChars[i] : i \in 1..26} |->
        LowerChars[CHOOSE i \in 1..26 : UpperChars[i] = c]]

LowerChar(c) == IF c \in DOMAIN LowerTable THEN LowerTable[c] ELSE c

\* str.lower()
Lower(s) == [i \in 1..Len(s) |-> LowerChar(s[i])]

\* regex \d
IsDigit(c) == c \in {"0","1","2","3","4","5","6","7","8","9"}

\* regex \s
IsSpace(c) == c \in {" ", "\n", "\t", "\r"}

\* s[i:i+len(w)] == w, 1-based, false when the slice runs off the end
At(s, i, w) ==
    /\ i >= 1
    /\ i + Len(w) - 1 <= Len(s)
    /\ \A k \in 1..Len(w) : s[i + k - 1] = w[k]

\* the same comparison under re.IGNORECASE
AtIgnoreCase(s, i, w) ==
    /\ i >= 1
    /\ i + Len(w) - 1 <= Len(s)
    /\ \A k \in 1..Len(w) : LowerChar(s[i + k - 1]) = LowerChar(w[k])

\* Python's "w in s"
Contains(s, w) == \E i \in 1..(Len(s) + 1) : At(s, i, w)

\* str.endswith
EndsWith(s, w) == At(s, Len(s) - Len(w) + 1, w)

RECURSIVE Concat(_)
\* ''.join(parts)
Concat(parts) ==
    IF parts = <<>> THEN <<>> ELSE Head(parts) \o Concat(Tail(parts))

\* the literals of the source
S_tiktok    == <<"t","i","k","t","o","k">>
S_instagram == <<"i","n","s","t","a","g","r","a","m">>
S_insta     == <<"i","n","s","t","a">>
S_youtube   == <<"y","o","u","t","u","b","e">>
S_csv       == <<".","c","s","v">>
S_Views     == <<"V","i","e","w","s">>
S_Likes     == <<"L","i","k","e","s">>
S_Comments  == <<"C","o","m","m","e","n","t","s">>
S_Shares    == <<"S","h","a","r","e","s">>


(***************************************************************************)
(* Scanning helpers for the regular expressions.  Positions are 1-based;   *)
(* Len(s) + 1 is the position after the last character.                    *)
(***************************************************************************)
\* position after the maximal run of \s starting at i
SkipSpaces(s, i) ==
    CHOOSE j \in i..(Len(s) + 1) :
        /\ \A k \in i..(j - 1) : IsSpace(s[k])
        /\ j = Len(s) + 1 \/ ~IsSpace(s[j])

\* position after the maximal run of \d starting at i
SkipDigits(s, i) ==
    CHOOSE j \in i..(Len(s) + 1) :
        /\ \A k \in i..(j - 1) : IsDigit(s[k])
        /\ j = Len(s) + 1 \/ ~IsDigit(s[j])

\* position before the maximal run of \s ending at i (0 = before the text)
SkipSpacesBack(s, i) ==
    CHOOSE j \in 0..i :
        /\ \A k \in (j + 1)..i : IsSpace(s[k])
        /\ j = 0 \/ ~IsSpace(s[j])

\* position before the maximal run of \d ending at i
SkipDigitsBack(s, i) ==
    CHOOSE j \in 0..i :
        /\ \A k \in (j + 1)..i : IsDigit(s[k])
        /\ j = 0 \/ ~IsDigit(s[j])

\* a newline among s[i..j-1]
HasNewline(s, i, j) == \E k \in i..(j - 1) : s[k] = "\n"

\* the least element of a non-empty set of positions (leftmost match)
Leftmost(S) == CHOOSE x \in S : \A y \in S : x <= y

\* the greatest element of a non-empty set (greedy quantifier)
Greatest(S) == CHOOSE x \in S : \A y \in S : y <= x

DigitValue(c) ==
    CASE c = "0" -> 0 [] c = "1" -> 1 [] c = "2" -> 2 [] c = "3" -> 3
      [] c = "4" -> 4 [] c = "5" -> 5 [] c = "6" -> 6 [] c = "7" -> 7
      [] c = "8" -> 8 [] c = "9" -> 9

RECURSIVE DigitsValue(_)
\* the integer written by a string of digits ("" is 0)
DigitsValue(s) ==
    IF s = <<>> THEN 0
    ELSE 10 * DigitsValue(SubSeq(s, 1, Len(s) - 1)) + DigitValue(s[Len(s)])

\* str.strip()
Strip(s) ==
    LET a == SkipSpaces(s, 1)
        b == SkipSpacesBack(s, Len(s))
    IN  IF a > b THEN <<>> ELSE SubSeq(s, a, b)

\* str.replace(c, '')
RemoveChar(s, c) == SelectSeq(s, LAMBDA x : x # c)

(***************************************************************************)
(* process_instagram_photos: classification of the two OCR texts.          *)
(***************************************************************************)
\* re.search(r'Views\s*\n*\s*(\d{3,})', text, IGNORECASE | DOTALL)
ViewsThenNumber(text) ==
    \E i \in 1..Len(text) :
        /\ AtIgnoreCase(text, i, S_Views)
        /\ LET j == SkipSpaces(text, i + Len(S_Views))
           IN  SkipDigits(text, j) - j >= 3

\* re.search(r'(\d{3,})\s*Views', text, IGNORECASE)
NumberThenViews(text) ==
    \E i \in 1..Len(text) :
        /\ AtIgnoreCase(text, i, S_Views)
        /\ LET j == SkipSpacesBack(text, i - 1)
           IN  j - SkipDigitsBack(text, j) >= 3

\* the condition of lines 181 and 184
LooksLikeViews(text) == ViewsThenNumber(text) \/ NumberThenViews(text)

\* the condition of lines 189 and 192
LooksLikeInteractions(text) ==
    /\ Contains(text, S_Likes)
    /\ Contains(text, S_Comments)
    /\ ~Contains(text, S_Views)

\* when nothing identifies the screens, the first text is taken as views
Classify_guess(text1, text2) ==
    IF LooksLikeViews(text1)
    THEN [identified |-> TRUE, text_views |-> text1, text_interactions |-> text2]
    ELSE IF LooksLikeViews(text2)
    THEN [identified |-> TRUE, text_views |-> text2, text_interactions |-> text1]
    ELSE IF LooksLikeInteractions(text1)
    THEN [identified |-> TRUE, text_views |-> text2, text_interactions |-> text1]
    ELSE IF LooksLikeInteractions(text2)
    THEN [identified |-> TRUE, text_views |-> text1, text_interactions |-> text2]
    ELSE [identified |-> TRUE, text_views |-> text1, text_interactions |-> text2]

\* Lines 178-197: which text is the views screen and which the interactions
\* screen; identified = FALSE is the branch that replies and returns.
Classify(text1, text2) ==
    IF LooksLikeViews(text1)
    THEN [identified |-> TRUE, text_views |-> text1, text_interactions |-> text2]
    ELSE IF LooksLikeViews(text2)
    THEN [identified |-> TRUE, text_views |-> text2, text_interactions |-> text1]
    ELSE IF LooksLikeInteractions(text1)
    THEN [identified |-> TRUE, text_views |-> text2, text_interactions |-> text1]
    ELSE IF LooksLikeInteractions(text2)
    THEN [identified |-> TRUE, text_views |-> text1, text_interactions |-> text2]
    ELSE [identified |-> FALSE, text_views |-> <<>>, text_interactions |-> <<>>]

(***************************************************************************)
(* process_instagram_photos: the numbers.                                  *)
(***************************************************************************)
\* re.sub(r'[^\d\.]+$', '', s): drop the trailing run of characters that
\* are neither a digit nor a period
StripTrailingNonNumeric(s) ==
    LET keep == CHOOSE j \in 0..Len(s) :
                    /\ \A k \in (j + 1)..Len(s) : ~IsDigit(s[k]) /\ s[k] # "."
                    /\ j = 0 \/ IsDigit(s[j]) \/ s[j] = "."
    IN  SubSeq(s, 1, keep)

\* float(s) of a str: surrounding white space is dropped, then an optional
\* sign and one of the decimal literals digits, digits.digits, digits. and
\* .digits, or inf, infinity or nan in any case; every other string is the
\* ValueError of float().  (Exponents and underscores are not written here:
\* the strings handed to parse_number in this model have no "e" and no "_".)
\* The literal has a sign
FloatSigned(t) == t # <<>> /\ t[1] \in {"+", "-"}

\* the literal without its sign
FloatBody(t) == IF FloatSigned(t) THEN Tail(t) ELSE t

\* the position of the period of a decimal literal, Len + 1 without period
FloatPoint(body) ==
    IF \E k \in 1..Len(body) : body[k] = "."
    THEN Leftmost({k \in 1..Len(body) : body[k] = "."})
    ELSE Len(body) + 1

\* digits, digits.digits, digits. or .digits
IsDecimal(body) ==
    /\ Cardinality({k \in 1..Len(body) : body[k] = "."}) <= 1
    /\ \A k \in 1..Len(body) : IsDigit(body[k]) \/ body[k] = "."
    /\ \E k \in 1..Len(body) : IsDigit(body[k])

\* what float() makes of the literal without sign
FloatKind(body) ==
    IF IsDecimal(body) THEN "finite"
    ELSE IF Lower(body) \in { <<"i","n","f">>, <<"i","n","f","i","n","i","t","y">> }
    THEN "inf"
    ELSE IF Lower(body) = <<"n","a","n">> THEN "nan"
    ELSE "ValueError"

\* float(s): kind, sign, and the digits before and after the period
FloatOf(t, body) ==
    [ok   |-> FloatKind(body) # "ValueError",
     kind |-> FloatKind(body),
     neg  |-> FloatSigned(t) /\ t[1] = "-",
     int  |-> IF IsDecimal(body) THEN SubSeq(body, 1, FloatPoint(body) - 1) ELSE <<>>,
     frac |-> IF IsDecimal(body) THEN SubSeq(body, FloatPoint(body) + 1, Len(body))
              ELSE <<>>]

PyFloat(s) == FloatOf(Strip(s), FloatBody(Strip(s)))

\* int(float(s)): the integer part, truncated toward zero.  ok = FALSE is a
\* ValueError, of float() or of int() on nan; overflow is the OverflowError
\* of int() on an infinity.
IntOfFloat(s) ==
    LET f == PyFloat(s)
    IN  IF f.kind = "finite"
        THEN [ok |-> TRUE, overflow |-> FALSE,
              value |-> IF f.neg THEN 0 - DigitsValue(f.int) ELSE DigitsValue(f.int)]
        ELSE [ok |-> FALSE, overflow |-> f.kind = "inf", value |-> 0]

\* Lines 202-209: process_instagram_photos.parse_number
InstagramParseNumber(s) ==
    LET s1 == RemoveChar(Strip(s), ",")
        s2 == StripTrailingNonNumeric(s1)
        r  == IntOfFloat(s2)
    IN  IF r.ok THEN r.value ELSE 0

\* an exception other than ValueError leaves parse_number (lines 204-209)
InstagramParseNumberRaises(s) ==
    IntOfFloat(StripTrailingNonNumeric(RemoveChar(Strip(s), ","))).overflow

(***************************************************************************)
(* process_tiktok_photo: parse_number (lines 119-140).                     *)
(***************************************************************************)
\* re.sub(r'(?!\.\d|.[KM])\.', '', s): a period is removed unless the next
\* character is a digit, K or M (line 123)
RemoveStrayPeriods(s) ==
    LET keep == {k \in 1..Len(s) :
                    \/ s[k] # "."
                    \/ /\ k < Len(s)
                       /\ IsDigit(s[k + 1]) \/ s[k + 1] \in {"K", "M"}}
        Pick[k \in 0..Len(s)] ==
            IF k = 0 THEN <<>>
            ELSE IF k \in keep THEN Append(Pick[k - 1], s[k]) ELSE Pick[k - 1]
    IN  Pick[Len(s)]

\* Lines 119-140.  raised is the OverflowError of int() on an infinity,
\* which "except ValueError" does not catch.  val * multiplier is computed
\* exactly; on the numbers of this model that is the integer part of the
\* floating-point product.
TikTokParseNumber(s) ==
    LET s1 == RemoveStrayPeriods(RemoveChar(Strip(s), ","))
        multiplier == IF EndsWith(s1, <<"K">>) THEN 1000
                      ELSE IF EndsWith(s1, <<"M">>) THEN 1000000
                      ELSE 1
        s2  == IF multiplier = 1 THEN s1 ELSE SubSeq(s1, 1, Len(s1) - 1)
        val == PyFloat(s2)
        magnitude == (DigitsValue(val.int \o val.frac) * multiplier)
                        \div (10 ^ Len(val.frac))
    IN  IF val.kind = "finite"
        THEN [raised |-> FALSE, value |-> IF val.neg THEN 0 - magnitude ELSE magnitude]
        ELSE [raised |-> val.kind = "inf", value |-> 0]

\* re.search(label + r'\s*(\d+)', text, IGNORECASE | DOTALL) followed by
\* parse_number(match.group(1)) if match else 0  (lines 213-220)
LabelledNumber(text, label) ==
    LET starts == {i \in 1..Len(text) :
                      /\ AtIgnoreCase(text, i, label)
                      /\ LET j == SkipSpaces(text, i + Len(label))
                         IN  SkipDigits(text, j) > j}
    IN  IF starts = {} THEN 0
        ELSE LET j == SkipSpaces(text, Leftmost(starts) + Len(label))
             IN  InstagramParseNumber(SubSeq(text, j, SkipDigits(text, j) - 1))

\* starts of the maximal digit runs of a text
RunStarts(text) ==
    {q \in 1..Len(text) : IsDigit(text[q]) /\ (q = 1 \/ ~IsDigit(text[q - 1]))}

\* re.search(r'(\d{4,})\s*\n\s*Views', text_views, IGNORECASE | DOTALL):
\* the starts of the digit runs that match (line 227)
Tier1Starts(text) ==
    {q \in RunStarts(text) :
        LET e == SkipDigits(text, q)
            a == SkipSpaces(text, e)
        IN  /\ e - q >= 4
            /\ HasNewline(text, e, a)
            /\ AtIgnoreCase(text, a, S_Views)}

\* ",ddd" at position p
CommaGroupAt(text, p) ==
    /\ p + 3 <= Len(text)
    /\ text[p] = ","
    /\ \A k \in 1..3 : IsDigit(text[p + k])

\* re.search(r'(\d{1,3}(?:,\d{3})*)\s*Views', text_views, IGNORECASE): the
\* ends (exclusive) of group 1 for a match starting at i, as pairs
\* <<n, k>> of the digits taken by \d{1,3} and the comma groups taken
Tier2Choices(text, i) ==
    {c \in (1..3) \X (0..(Len(text) \div 4)) :
        LET n == c[1]
            k == c[2]
            e == i + n + 4 * k
        IN  /\ i + n - 1 <= Len(text)
            /\ \A d \in 0..(n - 1) : IsDigit(text[i + d])
            /\ \A g \in 0..(k - 1) : CommaGroupAt(text, i + n + 4 * g)
            /\ AtIgnoreCase(text, SkipSpaces(text, e), S_Views)}

\* group 1 of the leftmost match of the tier-2 pattern, both quantifiers
\* greedy (line 233)
Tier2Group(text) ==
    LET starts == {i \in 1..Len(text) :
                      IsDigit(text[i]) /\ Tier2Choices(text, i) # {}}
        i  == Leftmost(starts)
        cs == Tier2Choices(text, i)
        n  == Greatest({c[1] : c \in cs})
        k  == Greatest({c[2] : c \in {d \in cs : d[1] = n}})
    IN  IF starts = {} THEN [matched |-> FALSE, group |-> <<>>]
        ELSE [matched |-> TRUE, group |-> SubSeq(text, i, i + n + 4 * k - 1)]

\* re.search(r'^\s*(\d{3,5})\s*$', text_views, MULTILINE): the starts of
\* the digit runs that match (line 238).  ^ is the start of the text or the
\* position after a newline, $ the end of the text or the position before a
\* newline, and \s* runs over newlines.
Tier3Starts(text) ==
    {q \in RunStarts(text) :
        LET e == SkipDigits(text, q)
            a == SkipSpaces(text, e)
            b == SkipSpacesBack(text, q - 1)
        IN  /\ e - q \in 3..5
            /\ b = 0 \/ HasNewline(text, b + 1, q)
            /\ a = Len(text) + 1 \/ HasNewline(text, e, a)}

\* Lines 224-239: the three-tier search for the views count
ViewsCount(text_views) ==
    LET views_match_pri1 == Tier1Starts(text_views)
        views_match_pri2 == Tier2Group(text_views)
        large_number_match == Tier3Starts(text_views)
        Run(q) == SubSeq(text_views, q, SkipDigits(text_views, q) - 1)
    IN  IF views_match_pri1 # {}
        THEN InstagramParseNumber(Run(Leftmost(views_match_pri1)))
        ELSE IF views_match_pri2.matched
        THEN InstagramParseNumber(views_match_pri2.group)
        ELSE IF large_number_match # {}
        THEN InstagramParseNumber(Run(Leftmost(large_number_match)))
        ELSE 0

\* the record returned for the branch of line 196: nothing is saved
AmbiguousInput ==
    [saved |-> FALSE, views |-> 0, likes |-> 0, comments |-> 0, shares |-> 0]

\* the branch of line 196 falls through to the extraction instead of
\* returning
InstagramExtract_fallthrough(text1, text2) ==
    LET c == Classify(text1, text2)
        v == IF c.identified THEN c.text_views ELSE text1
        n == IF c.identified THEN c.text_interactions ELSE text2
    IN  [saved    |-> TRUE,
         views    |-> ViewsCount(v),
         likes    |-> LabelledNumber(n, S_Likes),
         comments |-> LabelledNumber(n, S_Comments),
         shares   |-> LabelledNumber(n, S_Shares)]

\* Lines 177-241 on the two OCR texts: what is passed to save_to_notion, or
\* AmbiguousInput when line 196 replies and returns.
InstagramExtract(text1, text2) ==
    LET c == Classify(text1, text2)
    IN  IF ~c.identified THEN AmbiguousInput
        ELSE [saved    |-> TRUE,
              views    |-> ViewsCount(c.text_views),
              likes    |-> LabelledNumber(c.text_interactions, S_Likes),
              comments |-> LabelledNumber(c.text_interactions, S_Comments),
              shares   |-> LabelledNumber(c.text_interactions, S_Shares)]

(***************************************************************************)
(* process_tiktok_photo: the three searches of lines 143-159.              *)
(***************************************************************************)
S_PostViews    == <<"P","o","s","t"," ","v","i","e","w","s">>
S_ProfileViews == <<"P","r","o","f","i","l","e"," ","v","i","e","w","s">>

\* regex [\d\.,]
IsNumberChar(c) == IsDigit(c) \/ c \in {".", ","}

\* regex [KM] under re.IGNORECASE
IsMagnitude(c) == c \in {"K", "M", "k", "m"}

\* position after the maximal run of [\d\.,] starting at i
SkipNumberChars(s, i) ==
    CHOOSE j \in i..(Len(s) + 1) :
        /\ \A k \in i..(j - 1) : IsNumberChar(s[k])
        /\ j = Len(s) + 1 \/ ~IsNumberChar(s[j])

\* position after the greedy match of [\d\.,]+[KM]? starting at q
NumberEnd(text, q) ==
    LET e == SkipNumberChars(text, q)
    IN  IF e <= Len(text) /\ IsMagnitude(text[e]) THEN e + 1 ELSE e

\* \s*\n\s* followed by a character of [\d\.,]: the white space from a on
\* holds a newline and ends before a number
NumberBelow(text, a) ==
    LET q == SkipSpaces(text, a)
    IN  /\ a <= Len(text)
        /\ HasNewline(text, a, q)
        /\ q <= Len(text)
        /\ IsNumberChar(text[q])

\* the pairs <<i, j>> at which label1.*?label2 matches from i with label2
\* at j, the rest of the pattern matching at the position after label2;
\* follows is the set of the positions at which the rest matches
LabelPairs(text, label1, label2, follows) ==
    {p \in (1..Len(text)) \X (1..Len(text)) :
        /\ AtIgnoreCase(text, p[1], label1)
        /\ p[2] >= p[1] + Len(label1)
        /\ AtIgnoreCase(text, p[2], label2)
        /\ p[2] + Len(label2) \in follows}

\* the position after label2 in the match re.search returns: the leftmost
\* start, and for it the nearest label2 (.*? is lazy)
AfterLabels(text, label1, label2, follows) ==
    LET pairs == LabelPairs(text, label1, label2, follows)
        i == Leftmost({p[1] : p \in pairs})
        j == Leftmost({p[2] : p \in {r \in pairs : r[1] = i}})
    IN  j + Len(label2)

\* Lines 143-144:
\* re.search(r'Post views.*?Profile views\s*\n\s*([\d\.,]+[KM]?)', text,
\*           IGNORECASE | DOTALL), group 1
PostViewsMatch(text) ==
    LET follows == {a \in 1..Len(text) : NumberBelow(text, a)}
        q == SkipSpaces(text, AfterLabels(text, S_PostViews, S_ProfileViews, follows))
    IN  IF LabelPairs(text, S_PostViews, S_ProfileViews, follows) = {}
        THEN [matched |-> FALSE, group1 |-> <<>>]
        ELSE [matched |-> TRUE, group1 |-> SubSeq(text, q, NumberEnd(text, q) - 1)]

\* ([\d\.,]+[KM]?)\s*([\d\.,]+[KM]?) from q on, q being at a character of
\* [\d\.,]: the ends of group 1 in the order the backtracking tries them.
\* The whole run with its K or M, then the whole run, each followed by
\* white space and a second number; then the run less its last character,
\* which becomes the second number.
TwoNumbers(text, q) ==
    LET e     == SkipNumberChars(text, q)
        Second(g) == LET q2 == SkipSpaces(text, g)
                     IN  q2 <= Len(text) /\ IsNumberChar(text[q2])
        ends  == (IF e <= Len(text) /\ IsMagnitude(text[e]) /\ Second(e + 1)
                  THEN <<e + 1>> ELSE <<>>)
                 \o (IF Second(e) THEN <<e>> ELSE <<>>)
                 \o (IF e - q >= 2 THEN <<e - 1>> ELSE <<>>)
    IN  IF ends = <<>> THEN [matched |-> FALSE, group1 |-> <<>>, group2 |-> <<>>]
        ELSE LET g  == ends[1]
                 q2 == SkipSpaces(text, g)
             IN  [matched |-> TRUE,
                  group1  |-> SubSeq(text, q, g - 1),
                  group2  |-> SubSeq(text, q2, NumberEnd(text, q2) - 1)]

\* Line 147:
\* re.search(r'Likes.*?Comments\s*\n\s*([\d\.,]+[KM]?)\s*([\d\.,]+[KM]?)',
\*           text, IGNORECASE | DOTALL), groups 1 and 2
LikesCommentsMatch(text) ==
    LET follows == {a \in 1..Len(text) :
                       /\ NumberBelow(text, a)
                       /\ TwoNumbers(text, SkipSpaces(text, a)).matched}
        q == SkipSpaces(text, AfterLabels(text, S_Likes, S_Comments, follows))
    IN  IF LabelPairs(text, S_Likes, S_Comments, follows) = {}
        THEN [matched |-> FALSE, group1 |-> <<>>, group2 |-> <<>>]
        ELSE TwoNumbers(text, q)

\* Line 158:
\* re.search(r'Shares.*?\n\s*([\d\.,]+[KM]?)', text, IGNORECASE | DOTALL),
\* group 1: the leftmost "Shares" after which some newline is followed by
\* white space and a number, and the nearest such newline
SharesMatch(text) ==
    LET Newlines(i) == {n \in (i + Len(S_Shares))..Len(text) :
                           /\ text[n] = "\n"
                           /\ LET q == SkipSpaces(text, n + 1)
                              IN  q <= Len(text) /\ IsNumberChar(text[q])}
        starts == {i \in 1..Len(text) :
                      AtIgnoreCase(text, i, S_Shares) /\ Newlines(i) # {}}
        q == SkipSpaces(text, Leftmost(Newlines(Leftmost(starts))) + 1)
    IN  IF starts = {} THEN [matched |-> FALSE, group1 |-> <<>>]
        ELSE [matched |-> TRUE, group1 |-> SubSeq(text, q, NumberEnd(text, q) - 1)]

\* Lines 142-161 on the OCR text: the arguments of save_to_notion.  (The
\* groups hold no letter but a last K or M, so parse_number does not raise
\* on them.)
TikTokExtract(text) ==
    LET pv_match     == PostViewsMatch(text)
        lc_match     == LikesCommentsMatch(text)
        shares_match == SharesMatch(text)
    IN  [views    |-> IF pv_match.matched
                      THEN TikTokParseNumber(pv_match.group1).value ELSE 0,
         likes    |-> IF lc_match.matched
                      THEN TikTokParseNumber(lc_match.group1).value ELSE 0,
         comments |-> IF lc_match.matched
                      THEN TikTokParseNumber(lc_match.group2).value ELSE 0,
         shares   |-> IF shares_match.matched
                      THEN TikTokParseNumber(shares_match.group1).value ELSE 0]

(***************************************************************************)
(* process_youtube_csv.  A row of csv.DictReader is a function from header *)
(* names to cell texts.                                                    *)
(***************************************************************************)
\* int(s) of a str: optional surrounding whitespace, an optional sign and
\* decimal digits; anything else raises ValueError.  (Underscore digit
\* separators do not occur in the cells used here.)
PyInt(s) ==
    LET t      == Strip(s)
        signed == t # <<>> /\ t[1] \in {"+", "-"}
        digits == IF signed THEN Tail(t) ELSE t
    IN  IF digits # <<>> /\ \A k \in 1..Len(digits) : IsDigit(digits[k])
        THEN [ok |-> TRUE,
              value |-> IF signed /\ t[1] = "-" THEN 0 - DigitsValue(digits)
                        ELSE DigitsValue(digits)]
        ELSE [ok |-> FALSE, value |-> 0]

\* line 254
content_headers == <<"Video", "Content Title", "Content", "">>

\* line 258: next((h for h in content_headers if h in row), None)
ContentKey(row) ==
    LET found == {i \in 1..Len(content_headers) : content_headers[i] \in DOMAIN row}
    IN  IF found = {} THEN None ELSE content_headers[Leftmost(found)]

\* line 260: "content_key and (row[content_key] == 'Total' or ... 'All videos')";
\* None and the empty string are both false in Python
IsTotalRow(row) ==
    LET content_key == ContentKey(row)
    IN  /\ content_key # None
        /\ content_key # ""
        /\ \/ row[content_key] = <<"T","o","t","a","l">>
           \/ row[content_key] = <<"A","l","l"," ","v","i","d","e","o","s">>

\* row.get(key, default)
RowGet(row, key, default) == IF key \in DOMAIN row THEN row[key] ELSE default

\* Lines 247-269 on the parsed rows: the arguments of save_to_notion, or
\* raised = TRUE when an int() of lines 262-266 raises ValueError.  The four
\* conversions run in the order likes, comments, views, shares and the first
\* failure leaves the function.
YouTubeExtract(rows) ==
    LET hits  == {i \in 1..Len(rows) : IsTotalRow(rows[i])}
        row   == rows[Leftmost(hits)]
        zero  == <<"0">>
        likes    == PyInt(RowGet(row, "Likes", zero))
        comments == PyInt(RowGet(row, "Comments added", RowGet(row, "Comments", zero)))
        views    == PyInt(RowGet(row, "Views", zero))
        shares   == PyInt(RowGet(row, "Shares", zero))
    IN  IF hits = {}
        THEN [raised |-> FALSE, views |-> 0, likes |-> 0, comments |-> 0, shares |-> 0]
        ELSE IF likes.ok /\ comments.ok /\ views.ok /\ shares.ok
        THEN [raised |-> FALSE, views |-> views.value, likes |-> likes.value,
              comments |-> comments.value, shares |-> shares.value]
        ELSE [raised |-> TRUE, views |-> 0, likes |-> 0, comments |-> 0, shares |-> 0]

(***************************************************************************)
(* The messages and attachments delivered to the bot.                      *)
(***************************************************************************)
\* The ticket threads (line 60); thread_state is keyed by their ids.
Threads == {"t1"}

\* Attachments that can be uploaded, by a name of the model.
Attachments == {"total_csv", "bad_csv", "views_png", "blur_png"}

\* attachment.filename
Filename(a) ==
    CASE a = "total_csv" -> <<"t",".","c","s","v">>
      [] a = "bad_csv"   -> <<"B",".","C","S","V">>
      [] a = "views_png" -> <<"v",".","p","n","g">>
      [] a = "blur_png"  -> <<"b",".","p","n","g">>

\* Image.open(io.BytesIO(bytes)) returns an image (lines 110, 170, 174);
\* on the bytes of a CSV file it raises UnidentifiedImageError.
IsImage(a) == a \in {"views_png", "blur_png"}

\* pytesseract.image_to_string of the image (lines 116, 171, 175)
OcrText(a) ==
    CASE a = "views_png" -> <<"4","5","0"," ","V","i","e","w","s">>
      [] a = "blur_png"  -> <<"x">>

\* csv_bytes.decode('utf-8') succeeds (line 245); the bytes of a PNG image
\* are not UTF-8 and raise UnicodeDecodeError.
IsUtf8(a) == a \in {"total_csv", "bad_csv"}

\* csv.DictReader over the decoded file (line 247)
CsvRows(a) ==
    CASE a = "total_csv" ->
            << [Video |-> <<"T","o","t","a","l">>, Views |-> <<"4","5","0">>,
                Likes |-> <<"1","2">>, Comments |-> <<"3">>, Shares |-> <<"1">>] >>
      [] a = "bad_csv" ->
            << [Video |-> <<"T","o","t","a","l">>, Views |-> <<"4","5","0">>,
                Likes |-> <<"1",",","2","3","4">>, Comments |-> <<"3">>,
                Shares |-> <<"1">>] >>

\* message.content of the text messages
Contents ==
    { <<"T","i","k","T","o","k">>, <<"i","n","s","t","a">>,
      <<"Y","o","u","T","u","b","e">>, <<"h","i">> }

\* The messages: a text without attachment, or one attachment without text.
Messages ==
    [content : Contents, attachments : {<<>>}]
      \cup [content : {<<>>}, attachments : {<<a>> : a \in Attachments}]

(***************************************************************************)
(* State.                                                                  *)
(*                                                                         *)
(* heap holds the dicts {'type': ..., 'photos': [...]} ever created by     *)
(* line 63, in creation order, and thread_state maps a thread id to the    *)
(* position of its dict in heap (NoRef: the key is absent).  A coroutine   *)
(* keeps its dict in the local variable state, also after the key was      *)
(* deleted.  handlers holds one record per delivered message, in arrival   *)
(* order: the locals of its on_message coroutine, the await it is          *)
(* suspended in, and what it has done so far.                              *)
(***************************************************************************)
VARIABLES thread_state, heap, handlers, ig, yt, tt, pn

vars == <<thread_state, heap, handlers, ig, yt, tt, pn>>

NoRef == 0

\* the value of ig while the extractor is not run on its own
IgIdle == [pc |-> "idle", text1 |-> <<>>, text2 |-> <<>>, result |-> AmbiguousInput]

\* the values of yt, tt and pn while process_youtube_csv,
\* process_tiktok_photo and parse_number are not run on their own
YtIdle == [pc |-> "idle"]
TtIdle == [pc |-> "idle"]
PnIdle == [pc |-> "idle"]

\* Line 46 and an empty event loop.
Init ==
    /\ thread_state = [t \in Threads |-> NoRef]
    /\ heap = <<>>
    /\ handlers = <<>>
    /\ ig = IgIdle
    /\ yt = YtIdle
    /\ tt = TtIdle
    /\ pn = PnIdle

(***************************************************************************)
(* on_message up to its first await (lines 55-102).                        *)
(***************************************************************************)
\* Lines 62-65: the dict of the thread, created when the key is absent.
StateRef(t) == IF thread_state[t] = NoRef THEN Len(heap) + 1 ELSE thread_state[t]

HeapWithState(t) ==
    IF thread_state[t] = NoRef
    THEN Append(heap, [type |-> None, photos |-> <<>>])
    ELSE heap

ThreadStateWith(t) == [thread_state EXCEPT ![t] = StateRef(t)]

\* Line 68: a text message without attachments
IsTypeMessage(m) == m.content # <<>> /\ m.attachments = <<>>

\* Lines 69-77: the format named by a text, None when it names none
DeclaredType(content) ==
    LET content_lower == Lower(content)
    IN  IF Contains(content_lower, S_tiktok) THEN "TikTok"
        ELSE IF Contains(content_lower, S_instagram) \/ Contains(content_lower, S_insta)
        THEN "Instagram"
        ELSE IF Contains(content_lower, S_youtube) THEN "YouTube"
        ELSE None

\* a declaration that names no format unsets the format
TypeAfterMessage_reset(type, content) == DeclaredType(content)

\* Lines 70-78: state['type'] after a text message
TypeAfterMessage(type, content) ==
    IF DeclaredType(content) # None THEN DeclaredType(content) ELSE type

\* the replies of lines 72, 75 and 78
ReadyReply(content) ==
    IF DeclaredType(content) = None THEN <<>> ELSE <<"Ready for " \o DeclaredType(content)>>

\* the attachment is handled whatever the type is
Routed_untyped(attachments, type) == attachments # <<>>

\* Line 82: "message.attachments and state['type']"
Routed(attachments, type) == attachments # <<>> /\ type # None

\* the extension is compared without lower()
IsCsv_cased(filename) == EndsWith(filename, S_csv)

\* Line 86: attachment.filename.lower().endswith('.csv')
IsCsv(filename) == EndsWith(Lower(filename), S_csv)

\* the Instagram extractor is called from two photos on
PhotoBranch_atleast(type, n) ==
    IF type = "TikTok" /\ n = 1 THEN "process_tiktok_photo"
    ELSE IF type = "Instagram" /\ n >= 2 THEN "process_instagram_photos"
    ELSE IF type = "Instagram" /\ n < 2 THEN "reply"
    ELSE "pass"

\* the count is tested as it was before the append
PhotoBranch_stale(type, n) ==
    IF type = "TikTok" /\ n - 1 = 1 THEN "process_tiktok_photo"
    ELSE IF type = "Instagram" /\ n - 1 = 2 THEN "process_instagram_photos"
    ELSE IF type = "Instagram" /\ n - 1 < 2 THEN "reply"
    ELSE "pass"

\* Lines 95-102: the branch taken once the photo is appended, n = len(photos)
PhotoBranch(type, n) ==
    IF type = "TikTok" /\ n = 1 THEN "process_tiktok_photo"
    ELSE IF type = "Instagram" /\ n = 2 THEN "process_instagram_photos"
    ELSE IF type = "Instagram" /\ n < 2 THEN "reply"
    ELSE "pass"

\* the coroutine of a message that has just been delivered
Handler(t, m) ==
    [thread_id |-> t, content |-> m.content, attachments |-> m.attachments,
     state |-> StateRef(t), pc |-> "done",
     type |-> HeapWithState(t)[StateRef(t)].type,
     appended |-> 0, call |-> None, photos |-> <<>>,
     saved |-> None, replies |-> <<>>, deleted |-> NoRef]

CanDeliver == Len(handlers) < MaxMsgs

\* Lines 68-79: a text message sets the type when it names a format and
\* returns.  Nothing follows the awaited reply, so the coroutine is done.
TypeMessage(t, m) ==
    /\ CanDeliver
    /\ IsTypeMessage(m)
    /\ thread_state' = ThreadStateWith(t)
    /\ heap' = [HeapWithState(t) EXCEPT
                   ![StateRef(t)].type = TypeAfterMessage(@, m.content)]
    /\ handlers' = Append(handlers,
                      [Handler(t, m) EXCEPT !.replies = ReadyReply(m.content)])
    /\ UNCHANGED <<ig, yt, tt, pn>>

\* Line 82 is false: an attachment while no type is set (or a message with
\* neither text nor attachment) only creates the dict of the thread.
Unrouted(t, m) ==
    /\ CanDeliver
    /\ ~IsTypeMessage(m)
    /\ ~Routed(m.attachments, HeapWithState(t)[StateRef(t)].type)
    /\ thread_state' = ThreadStateWith(t)
    /\ heap' = HeapWithState(t)
    /\ handlers' = Append(handlers, Handler(t, m))
    /\ UNCHANGED <<ig, yt, tt, pn>>

\* Lines 83-88: a CSV attachment of a YouTube thread; the coroutine is
\* suspended in attachment.read() of process_youtube_csv (line 244).
YouTubeCsv(t, m) ==
    /\ CanDeliver
    /\ ~IsTypeMessage(m)
    /\ Routed(m.attachments, HeapWithState(t)[StateRef(t)].type)
    /\ HeapWithState(t)[StateRef(t)].type = "YouTube"
    /\ IsCsv(Filename(m.attachments[1]))
    /\ thread_state' = ThreadStateWith(t)
    /\ heap' = HeapWithState(t)
    /\ handlers' = Append(handlers,
                      [Handler(t, m) EXCEPT !.pc = "read",
                                            !.call = "process_youtube_csv",
                                            !.photos = <<m.attachments[1]>>])
    /\ UNCHANGED <<ig, yt, tt, pn>>

\* Lines 89-90: another attachment of a YouTube thread
YouTubeMismatch(t, m) ==
    /\ CanDeliver
    /\ ~IsTypeMessage(m)
    /\ Routed(m.attachments, HeapWithState(t)[StateRef(t)].type)
    /\ HeapWithState(t)[StateRef(t)].type = "YouTube"
    /\ ~IsCsv(Filename(m.attachments[1]))
    /\ thread_state' = ThreadStateWith(t)
    /\ heap' = HeapWithState(t)
    /\ handlers' = Append(handlers,
                      [Handler(t, m) EXCEPT !.replies = <<"Please send a CSV file">>])
    /\ UNCHANGED <<ig, yt, tt, pn>>

\* Lines 91-102: the attachment is appended to state['photos'] and the
\* branch is chosen on the type and the new length.  The two extractors
\* suspend in the read() of their first photo (lines 109, 169);
\* process_instagram_photos first replies and returns when it is given
\* fewer than two photos (lines 164-166).
Photo(t, m) ==
    LET ref    == StateRef(t)
        state  == HeapWithState(t)[ref]
        photos == Append(state.photos, m.attachments[1])
        branch == PhotoBranch(state.type, Len(photos))
        h      == [Handler(t, m) EXCEPT !.appended = Len(photos)]
    IN  /\ CanDeliver
        /\ ~IsTypeMessage(m)
        /\ Routed(m.attachments, state.type)
        /\ state.type # "YouTube"
        /\ thread_state' = ThreadStateWith(t)
        /\ heap' = [HeapWithState(t) EXCEPT ![ref].photos = photos]
        /\ handlers' = Append(handlers,
              CASE branch = "process_tiktok_photo" ->
                     [h EXCEPT !.pc = "read", !.call = branch,
                               !.photos = <<photos[1]>>]
                [] branch = "process_instagram_photos" /\ Len(photos) >= 2 ->
                     [h EXCEPT !.pc = "read", !.call = branch, !.photos = photos]
                [] branch = "process_instagram_photos" /\ Len(photos) < 2 ->
                     [h EXCEPT !.pc = "reply", !.call = branch, !.photos = photos,
                               !.replies = <<"Expected two Instagram photos">>]
                [] branch = "reply" ->
                     [h EXCEPT !.replies = <<"Received photo 1/2">>]
                [] OTHER -> h)
        /\ UNCHANGED <<ig, yt, tt, pn>>

(***************************************************************************)
(* The continuations of a suspended coroutine.  An exception that leaves   *)
(* on_message ends the coroutine (pc = "raised"); discord.py logs it.      *)
(***************************************************************************)
Suspended(i, pc, call) ==
    /\ i \in 1..Len(handlers)
    /\ handlers[i].pc = pc
    /\ handlers[i].call = call

\* save_to_notion (lines 273-307): one notion.pages.create and, whether it
\* returns (line 295) or raises (line 304), one reply, in whose await the
\* coroutine is suspended next.
Saved(h, analytic_type) ==
    [h EXCEPT !.saved = analytic_type,
              !.replies = Append(@, "analytics reply"),
              !.pc = "reply"]

\* Lines 109-161: the photo is read, opened, recognized and saved.
TikTokRead(i) ==
    /\ Suspended(i, "read", "process_tiktok_photo")
    /\ handlers' = [handlers EXCEPT ![i] =
                       IF IsImage(@.photos[1]) THEN Saved(@, "TikTok")
                       ELSE [@ EXCEPT !.pc = "raised"]]
    /\ UNCHANGED <<thread_state, heap, ig, yt, tt, pn>>

\* Lines 244-269: the file is read, decoded, parsed and saved.
YouTubeRead(i) ==
    /\ Suspended(i, "read", "process_youtube_csv")
    /\ handlers' = [handlers EXCEPT ![i] =
                       IF IsUtf8(@.photos[1]) /\ ~YouTubeExtract(CsvRows(@.photos[1])).raised
                       THEN Saved(@, "YouTube")
                       ELSE [@ EXCEPT !.pc = "raised"]]
    /\ UNCHANGED <<thread_state, heap, ig, yt, tt, pn>>

\* Lines 169-173: the first photo is read, opened and recognized; the
\* coroutine is suspended in the read() of the second.  photos is the list
\* state['photos'] itself, not a copy.
InstagramRead1(i) ==
    /\ Suspended(i, "read", "process_instagram_photos")
    /\ handlers' = [handlers EXCEPT ![i] =
                       IF IsImage(heap[@.state].photos[1])
                       THEN [@ EXCEPT !.pc = "read2"]
                       ELSE [@ EXCEPT !.pc = "raised"]]
    /\ UNCHANGED <<thread_state, heap, ig, yt, tt, pn>>

\* Lines 173-241: the second photo is read, opened and recognized, the two
\* texts are classified, and either line 196 replies or the numbers are
\* saved.
InstagramRead2(i) ==
    /\ Suspended(i, "read2", "process_instagram_photos")
    /\ handlers' = [handlers EXCEPT ![i] =
          LET photos == heap[@.state].photos
          IN  IF ~IsImage(photos[2]) THEN [@ EXCEPT !.pc = "raised"]
              ELSE IF InstagramExtract(OcrText(photos[1]), OcrText(photos[2])).saved
              THEN Saved(@, "Instagram")
              ELSE [@ EXCEPT !.replies = Append(@, "Could not reliably identify"),
                             !.pc = "reply"]]
    /\ UNCHANGED <<thread_state, heap, ig, yt, tt, pn>>

\* del thread_state[thread_id] (lines 88, 97, 100) deletes whatever dict
\* the key holds
ThreadStateAfterDel(ts, t) == [ts EXCEPT ![t] = NoRef]

\* Lines 88, 97, 100: back in on_message after the extractor returned.  del
\* raises KeyError when the key is absent.
Del(i) ==
    /\ i \in 1..Len(handlers)
    /\ handlers[i].pc = "reply"
    /\ LET t == handlers[i].thread_id
       IN  IF thread_state[t] = NoRef
           THEN /\ handlers' = [handlers EXCEPT ![i].pc = "KeyError"]
                /\ UNCHANGED thread_state
           ELSE /\ handlers' = [handlers EXCEPT ![i].pc = "done",
                                                ![i].deleted = thread_state[t]]
                /\ thread_state' = ThreadStateAfterDel(thread_state, t)
    /\ UNCHANGED <<heap, ig, yt, tt, pn>>

Next ==
    \/ \E t \in Threads, m \in Messages : TypeMessage(t, m)
    \/ \E t \in Threads, m \in Messages : Unrouted(t, m)
    \/ \E t \in Threads, m \in Messages : YouTubeCsv(t, m)
    \/ \E t \in Threads, m \in Messages : YouTubeMismatch(t, m)
    \/ \E t \in Threads, m \in Messages : Photo(t, m)
    \/ \E i \in 1..MaxMsgs : TikTokRead(i)
    \/ \E i \in 1..MaxMsgs : YouTubeRead(i)
    \/ \E i \in 1..MaxMsgs : InstagramRead1(i)
    \/ \E i \in 1..MaxMsgs : InstagramRead2(i)
    \/ \E i \in 1..MaxMsgs : Del(i)

Spec == Init /\ [][Next]_vars

(***************************************************************************)
(* The Instagram extractor on its own: process_instagram_photos applied to *)
(* every pair of OCR texts made of at most MaxTokens tokens each.          *)
(***************************************************************************)
Tokens ==
    { S_Views, Lower(S_Views), S_Likes, S_Comments,
      <<"4","5","0">>, <<"1","2">>, <<"\n">> }

Texts ==
    { Concat(ts) : ts \in UNION { [1..n -> Tokens] : n \in 0..MaxTokens } }

InitIG ==
    /\ thread_state = [t \in Threads |-> NoRef]
    /\ heap = <<>>
    /\ handlers = <<>>
    /\ ig \in [pc : {"start"}, text1 : Texts, text2 : Texts, result : {AmbiguousInput}]
    /\ yt = YtIdle
    /\ tt = TtIdle
    /\ pn = PnIdle

\* process_instagram_photos from line 177 on, text1 and text2 being the
\* texts of photos[0] and photos[1]
Extract ==
    /\ ig.pc = "start"
    /\ ig' = [ig EXCEPT !.pc = "done",
                        !.result = InstagramExtract(ig.text1, ig.text2)]
    /\ UNCHANGED <<thread_state, heap, handlers, yt, tt, pn>>

NextIG == Extract

SpecIG == InitIG /\ [][NextIG]_vars

(***************************************************************************)
(* process_youtube_csv on its own: lines 247-267 applied to the rows of    *)
(* every file of at most MaxRows rows below the header row.  All rows of a *)
(* file have the columns of its header row; the file has one or two of the *)
(* content columns of line 254, the columns Views, Likes and Shares, and   *)
(* any of the two comment columns.                                         *)
(***************************************************************************)
\* the content cells of the files
YtMarkers ==
    { <<"T","o","t","a","l">>, <<"A","l","l"," ","v","i","d","e","o","s">>,
      <<"C","l","i","p">> }

\* the content columns a file can have
YtContentColumns ==
    {D \in SUBSET {content_headers[i] : i \in 1..Len(content_headers)} :
        Cardinality(D) \in 1..2}

\* the comment columns a file can have
YtCommentColumns == SUBSET {"Comments added", "Comments"}

\* the number written in a metric cell: ten times the row plus the column
YtCellValue(k, h) ==
    10 * k + (CASE h = "Views" -> 1 [] h = "Likes" -> 2 [] h = "Shares" -> 3
                [] h = "Comments added" -> 4 [] h = "Comments" -> 5)

\* the text of that cell
YtCell(k, h) ==
    LET digit == <<"0","1","2","3","4","5","6","7","8","9">>
        v     == YtCellValue(k, h)
    IN  << digit[(v \div 10) + 1], digit[(v % 10) + 1] >>

\* row k of a file with the content columns D and the comment columns C
YtRow(D, C, k, marks) ==
    [h \in D \cup C \cup {"Views", "Likes", "Shares"} |->
        IF h \in D THEN marks[h] ELSE YtCell(k, h)]

\* csv.DictReader over the files (line 247)
YtFiles ==
    UNION { UNION { UNION {
        { [k \in 1..n |-> YtRow(D, C, k, marks[k])] :
            marks \in [1..n -> [D -> YtMarkers]] }
        : n \in 1..MaxRows }
        : C \in YtCommentColumns }
        : D \in YtContentColumns }

InitYT ==
    /\ thread_state = [t \in Threads |-> NoRef]
    /\ heap = <<>>
    /\ handlers = <<>>
    /\ ig = IgIdle
    /\ yt \in [pc : {"start"}, rows : YtFiles,
               result : {YouTubeExtract(<<>>)}]
    /\ tt = TtIdle
    /\ pn = PnIdle

\* process_youtube_csv from line 247 on
ExtractRows ==
    /\ yt.pc = "start"
    /\ yt' = [yt EXCEPT !.pc = "done", !.result = YouTubeExtract(yt.rows)]
    /\ UNCHANGED <<thread_state, heap, handlers, ig, tt, pn>>

NextYT == ExtractRows

SpecYT == InitYT /\ [][NextYT]_vars

(***************************************************************************)
(* The two parse_number functions on their own, applied to every string of *)
(* at most MaxChars characters of PnChars.                                 *)
(***************************************************************************)
PnChars == {"0", "1", ".", ",", "K", "M", "-", " ", "i", "n", "f", "a"}

PnStrings == UNION { [1..n -> PnChars] : n \in 0..MaxChars }

\* the result of a call: the value returned, or the exception that leaves it
PnNotRun == [raised |-> FALSE, value |-> 0]

InitPN ==
    /\ thread_state = [t \in Threads |-> NoRef]
    /\ heap = <<>>
    /\ handlers = <<>>
    /\ ig = IgIdle
    /\ yt = YtIdle
    /\ tt = TtIdle
    /\ pn \in [pc : {"start"}, s : PnStrings,
               tiktok : {PnNotRun}, instagram : {PnNotRun}]

\* parse_number(s) of process_tiktok_photo and of process_instagram_photos
ParseNumber ==
    /\ pn.pc = "start"
    /\ pn' = [pn EXCEPT
                 !.pc = "done",
                 !.tiktok = TikTokParseNumber(pn.s),
                 !.instagram = [raised |-> InstagramParseNumberRaises(pn.s),
                                value  |-> InstagramParseNumber(pn.s)]]
    /\ UNCHANGED <<thread_state, heap, handlers, ig, yt, tt>>

NextPN == ParseNumber

SpecPN == InitPN /\ [][NextPN]_vars

(***************************************************************************)
(* process_tiktok_photo on its own: lines 142-159 applied to the OCR text  *)
(* of a screen.  The screen shows the label pair Post views / Profile      *)
(* views above the views, the labels Likes and Comments above the likes    *)
(* and the comments, and the label Shares above the shares; a label that   *)
(* OCR did not recognize reads "?".                                         *)
(***************************************************************************)
\* the four labels, by the field they stand above
TtAnchors == {"views", "likes", "comments", "shares"}

\* the number tokens on the screens
TtNumbers == { <<"1","2",".","3","K">>, <<"4","5","0">>, <<"6","7">> }

\* pytesseract.image_to_string (line 116) of the screen on which the labels
\* of present are readable and number[f] is the token of field f
TtText(present, number) ==
    LET Label(f, label) == IF present[f] THEN label ELSE <<"?">>
    IN  Concat(<< Label("views", S_PostViews \o <<" ">> \o S_ProfileViews),
                  <<"\n">>, number["views"], <<"\n">>,
                  Label("likes", S_Likes), <<" ">>, Label("comments", S_Comments),
                  <<"\n">>, number["likes"], <<" ">>, number["comments"], <<"\n">>,
                  Label("shares", S_Shares),
                  <<"\n">>, number["shares"] >>)

InitTT ==
    /\ thread_state = [t \in Threads |-> NoRef]
    /\ heap = <<>>
    /\ handlers = <<>>
    /\ ig = IgIdle
    /\ yt = YtIdle
    /\ tt \in [pc : {"start"}, present : [TtAnchors -> BOOLEAN],
               number : [TtAnchors -> TtNumbers],
               result : {TikTokExtract(<<>>)}]
    /\ pn = PnIdle

\* process_tiktok_photo from line 142 on
ExtractText ==
    /\ tt.pc = "start"
    /\ tt' = [tt EXCEPT !.pc = "done",
                        !.result = TikTokExtract(TtText(tt.present, tt.number))]
    /\ UNCHANGED <<thread_state, heap, handlers, ig, yt, pn>>

NextTT == ExtractText

SpecTT == InitTT /\ [][NextTT]_vars

(***************************************************************************)
(* Properties of the submission state machine (Spec).                      *)
(***************************************************************************)
H == 1..Len(handlers)

\* the coroutine was delivered an attachment
GotAttachment(i) == handlers[i].attachments # <<>>

\* the coroutine called an extractor
Dispatched(i) == handlers[i].call # None

\* the coroutine found no dict for its thread and created one (line 63)
CreatedState(i) == \A j \in 1..(i - 1) : handlers[j].state # handlers[i].state

\* the dict of coroutine i has been deleted from thread_state by coroutine j
ReclaimedBy(i, j) == handlers[j].deleted = handlers[i].state

\* C1: every dict of thread_state, that is every submission lifecycle, is
\* dispatched to an extractor by at most one coroutine and handed to
\* save_to_notion by at most one coroutine.
C1_OneDispatchPerLifecycle ==
    \A i \in H, j \in H :
        /\ i # j
        /\ handlers[i].state = handlers[j].state
        => /\ ~(Dispatched(i) /\ Dispatched(j))
           /\ ~(handlers[i].saved # None /\ handlers[j].saved # None)

\* the number of artifacts a format asks for
MaxArtifacts(type) == IF type = "Instagram" THEN 2 ELSE 1

\* C2: the photo list of a thread's dict is never longer than the number of
\* artifacts its current type asks for (1 for TikTok and YouTube, 2 for
\* Instagram).
C2_ArtifactsWithinFormatMaximum ==
    \A t \in Threads :
        thread_state[t] # NoRef /\ heap[thread_state[t]].type # None
        => Len(heap[thread_state[t]].photos)
              <= MaxArtifacts(heap[thread_state[t]].type)

\* C3: process_instagram_photos is only ever called with exactly two
\* photos, by the coroutine whose photo made the list two long; the
\* coroutine whose photo made an Instagram list one long only replies
\* "Received photo 1/2"; and a photo delivered when the thread has no dict
\* (at first, or after a reclaim) is appended to nothing and dispatches
\* nothing.
C3_InstagramDispatchOnExactlyTwo ==
    \A i \in H :
        /\ handlers[i].call = "process_instagram_photos"
           => /\ Len(handlers[i].photos) = 2
              /\ handlers[i].appended = 2
              /\ handlers[i].type = "Instagram"
        /\ handlers[i].type = "Instagram" /\ handlers[i].appended = 1
           => /\ ~Dispatched(i)
              /\ handlers[i].saved = None
              /\ handlers[i].replies = <<"Received photo 1/2">>
        /\ GotAttachment(i) /\ CreatedState(i)
           => /\ handlers[i].appended = 0
              /\ ~Dispatched(i)
              /\ heap[handlers[i].state].photos = <<>>
                    \/ heap[handlers[i].state].type # None

\* C3 witness: an Instagram submission was dispatched with two photos and
\* reclaimed, and a third photo delivered afterwards found no dict.
C3_Witness ==
    \E i \in H, j \in H :
        /\ i < j
        /\ handlers[i].call = "process_instagram_photos"
        /\ ReclaimedBy(i, i)
        /\ GotAttachment(j)
        /\ CreatedState(j)
        /\ handlers[j].state > handlers[i].state

\* C4: a coroutine's del removes only the dict the coroutine itself worked
\* on, never a dict created for a later declaration, and never raises
\* KeyError because the key is already gone.
C4_ReclaimOnlyOwnLifecycle ==
    \A i \in H :
        /\ handlers[i].pc # "KeyError"
        /\ handlers[i].deleted # NoRef => handlers[i].deleted = handlers[i].state

NamedCsv(filename) ==
    LET n == Len(filename)
    IN  /\ n >= 4
        /\ filename[n - 3] = "."
        /\ filename[n - 2] \in {"c", "C"}
        /\ filename[n - 1] \in {"s", "S"}
        /\ filename[n] \in {"v", "V"}

\* the step delivers a message; its coroutine is the last of handlers'
Delivers == Len(handlers') = Len(handlers) + 1

\* C6: an attachment not named *.csv delivered to a YouTube thread leaves
\* thread_state and every dict as they are, calls no extractor, saves
\* nothing and is answered by the request for a CSV file; an attachment
\* named *.csv delivered to a YouTube thread, also after such a request, is
\* dispatched to process_youtube_csv.
C6_YouTubeMismatchKeepsState ==
    /\ [](\A i \in H :
             GotAttachment(i) /\ handlers[i].type = "YouTube"
             => IF NamedCsv(Filename(handlers[i].attachments[1]))
                THEN handlers[i].call = "process_youtube_csv"
                ELSE /\ ~Dispatched(i)
                     /\ handlers[i].saved = None
                     /\ handlers[i].replies = <<"Please send a CSV file">>
                     /\ handlers[i].pc = "done"
                     /\ handlers[i].deleted = NoRef)
    /\ [][Delivers
          => LET h == handlers'[Len(handlers')]
             IN  /\ h.attachments # <<>>
                 /\ h.type = "YouTube"
                 /\ ~NamedCsv(Filename(h.attachments[1]))
                 => /\ heap' = heap
                    /\ thread_state' = thread_state
                    /\ thread_state'[h.thread_id] = h.state
                    /\ heap'[h.state].type = "YouTube"]_vars

\* C6 witness: a YouTube thread was sent a PNG file, answered with the
\* request for a CSV file, and the CSV file sent next was extracted and
\* saved.
C6_Witness ==
    \E i \in H, j \in H :
        /\ i < j
        /\ handlers[i].state = handlers[j].state
        /\ handlers[i].type = "YouTube"
        /\ GotAttachment(i)
        /\ ~NamedCsv(Filename(handlers[i].attachments[1]))
        /\ handlers[i].replies = <<"Please send a CSV file">>
        /\ handlers[j].call = "process_youtube_csv"
        /\ handlers[j].saved = "YouTube"

\* C7: an attachment delivered while the thread has no type leaves the type
\* unset and the photo list empty, calls no extractor, saves nothing and
\* sends no reply; the photos of every dict are exactly the attachments
\* delivered while it had a type, so the attachment counts toward no later
\* submission.
C7_UnroutableArtifactIgnored ==
    /\ [](/\ \A i \in H :
                GotAttachment(i) /\ handlers[i].type = None
                => /\ handlers[i].appended = 0
                   /\ ~Dispatched(i)
                   /\ handlers[i].saved = None
                   /\ handlers[i].replies = <<>>
                   /\ handlers[i].pc = "done"
                   /\ handlers[i].deleted = NoRef
          /\ \A r \in DOMAIN heap :
                /\ heap[r].type = None => heap[r].photos = <<>>
                /\ \A k \in 1..Len(heap[r].photos) :
                      \E i \in H :
                          /\ handlers[i].state = r
                          /\ handlers[i].appended = k
                          /\ handlers[i].type # None
                          /\ handlers[i].attachments[1] = heap[r].photos[k])
    /\ [][Delivers
          => LET h == handlers'[Len(handlers')]
             IN  h.attachments # <<>> /\ h.type = None
                 => /\ heap'[h.state] = [type |-> None, photos |-> <<>>]
                    /\ \A r \in DOMAIN heap : heap'[r] = heap[r]]_vars

\* C7 witness: a photo was delivered before any declaration, the thread
\* was then declared TikTok, and the photo delivered after that was the
\* first of its list and was dispatched.
C7_Witness ==
    \E i \in H, j \in H :
        /\ i < j
        /\ handlers[i].state = handlers[j].state
        /\ GotAttachment(i)
        /\ handlers[i].type = None
        /\ handlers[j].type = "TikTok"
        /\ handlers[j].appended = 1
        /\ handlers[j].call = "process_tiktok_photo"

\* the coroutine called process_instagram_photos on two photos whose texts
\* identify neither screen, and is past the classification
EndedAmbiguous(i) ==
    /\ handlers[i].call = "process_instagram_photos"
    /\ handlers[i].pc \in {"reply", "done", "KeyError"}
    /\ LET photos == heap[handlers[i].state].photos
       IN  ~Classify(OcrText(photos[1]), OcrText(photos[2])).identified

\* C8: a coroutine whose Instagram extraction could not identify the
\* screens sends the failure reply exactly once and no other reply, saves
\* nothing, and when it leaves on_message the thread has no dict; an
\* attachment delivered to a thread without dict finds no type and is not
\* dispatched.
C8_AmbiguousReportedOnceAndReclaimed ==
    /\ [](\A i \in H :
             /\ EndedAmbiguous(i)
                => /\ handlers[i].saved = None
                   /\ handlers[i].replies = <<"Could not reliably identify">>
             /\ GotAttachment(i) /\ CreatedState(i)
                => handlers[i].type = None /\ ~Dispatched(i))
    /\ [][\A i \in H :
             /\ EndedAmbiguous(i)
             /\ handlers[i].pc = "reply"
             /\ handlers'[i].pc # "reply"
             => thread_state'[handlers[i].thread_id] = NoRef]_vars

\* C8 witness: an Instagram submission of two unreadable photos was
\* answered with the failure reply and reclaimed, and the photo delivered
\* next found no type.
C8_Witness ==
    \E i \in H, j \in H :
        /\ i < j
        /\ EndedAmbiguous(i)
        /\ handlers[i].pc = "done"
        /\ ReclaimedBy(i, i)
        /\ GotAttachment(j)
        /\ CreatedState(j)
        /\ handlers[j].state > handlers[i].state
        /\ handlers[j].type = None

(***************************************************************************)
(* Properties of the Instagram extractor (SpecIG).                         *)
(***************************************************************************)
\* C9: the extraction of the two texts in one order equals the extraction
\* in the other order: the same numbers, or AmbiguousInput both times.
C9_OrderIndependent ==
    ig.pc = "done" => ig.result = InstagramExtract(ig.text2, ig.text1)

\* the text holds the word Views, in any case, and a number of three or
\* more digits with nothing but white space between them, in either order
HasViewsAnchor(text) ==
    \E i \in 1..Len(text) :
        /\ \A k \in 1..5 :
              /\ i + k - 1 <= Len(text)
              /\ text[i + k - 1] \in {S_Views[k], Lower(S_Views)[k]}
        /\ \/ \E j \in (i + 5)..Len(text) :
                 /\ \A k \in (i + 5)..(j - 1) : IsSpace(text[k])
                 /\ j + 2 <= Len(text)
                 /\ \A k \in j..(j + 2) : IsDigit(text[k])
           \/ \E j \in 3..(i - 1) :
                 /\ \A k \in (j + 1)..(i - 1) : IsSpace(text[k])
                 /\ \A k \in (j - 2)..j : IsDigit(text[k])

\* the text holds "Likes" and "Comments" and does not hold "Views"
HasInteractionsOnly(text) ==
    /\ \E i \in 1..Len(text) : At(text, i, S_Likes)
    /\ \E i \in 1..Len(text) : At(text, i, S_Comments)
    /\ \A i \in 1..Len(text) : ~At(text, i, S_Views)

\* neither text has the views anchor, neither satisfies the fallback
NothingIdentifies ==
    /\ ~HasViewsAnchor(ig.text1)
    /\ ~HasViewsAnchor(ig.text2)
    /\ ~HasInteractionsOnly(ig.text1)
    /\ ~HasInteractionsOnly(ig.text2)

\* C10: when neither text has a number of three or more digits next to
\* "Views" and neither holds "Likes" and "Comments" without "Views", the
\* extraction is AmbiguousInput and nothing is saved.
C10_AmbiguousWhenNothingIdentifies ==
    ig.pc = "done" /\ NothingIdentifies => ig.result = AmbiguousInput

\* C10 witness: a text with "Views" next to a two-digit number and a text
\* with "Likes" but not "Comments" were extracted as AmbiguousInput.
C10_Witness ==
    /\ ig.pc = "done"
    /\ NothingIdentifies
    /\ ig.result = AmbiguousInput
    /\ ig.text1 = <<"1","2">> \o S_Views
    /\ ig.text2 = S_Likes \o <<"4","5","0">>

\* exactly one of the two texts is a candidate for the views screen, or
\* neither is and exactly one is a candidate for the interactions screen
ResolvedUnambiguously(text1, text2) ==
    \/ HasViewsAnchor(text1) /\ ~HasViewsAnchor(text2)
    \/ HasViewsAnchor(text2) /\ ~HasViewsAnchor(text1)
    \/ /\ ~HasViewsAnchor(text1)
       /\ ~HasViewsAnchor(text2)
       /\ HasInteractionsOnly(text1) # HasInteractionsOnly(text2)

\* C11: the extraction passes numbers to save_to_notion only when the two
\* heuristics single out one text as the views screen or one text as the
\* interactions screen without a competing candidate; in every other case
\* it is AmbiguousInput.
C11_NeverGuesses ==
    ig.pc = "done" /\ ig.result.saved
    => ResolvedUnambiguously(ig.text1, ig.text2)

(***************************************************************************)
(* Further properties of the submission state machine (Spec).              *)
(***************************************************************************)
\* the coroutine called process_youtube_csv on a decodable file with a
\* total row, and is past attachment.read()
ExtractedTotalRow(i) ==
    /\ handlers[i].call = "process_youtube_csv"
    /\ handlers[i].pc # "read"
    /\ IsUtf8(handlers[i].photos[1])
    /\ \E k \in 1..Len(CsvRows(handlers[i].photos[1])) :
          IsTotalRow(CsvRows(handlers[i].photos[1])[k])

\* C12: process_youtube_csv never raises on a file that has a total row,
\* whatever the cells of Likes, Views, Shares and the comments column hold:
\* the numbers are passed to save_to_notion, and the coroutine leaves
\* on_message through the del of line 88.
C12_YouTubeNeverFailsOnAggregateRow ==
    \A i \in H :
        ExtractedTotalRow(i)
        => /\ handlers[i].pc # "raised"
           /\ handlers[i].saved = "YouTube"
           /\ handlers[i].pc = "done" => handlers[i].deleted # NoRef

\* a coroutine of thread t is suspended in an extractor or before its del
InFlight(t) ==
    \E j \in H : handlers[j].thread_id = t /\ handlers[j].pc \in {"read", "read2", "reply"}

\* the dict of thread t can dispatch no photo any more: its list is as long
\* as its type asks for or longer, so no later photo makes it exactly that
\* long, and no coroutine is left that will delete it
Wedged(t) ==
    /\ thread_state[t] # NoRef
    /\ heap[thread_state[t]].type \in {"TikTok", "Instagram"}
    /\ Len(heap[thread_state[t]].photos) >= MaxArtifacts(heap[thread_state[t]].type)
    /\ ~InFlight(t)

\* C16: after an extractor raised in a coroutine, the dict that coroutine
\* worked on is not left in thread_state with a full photo list and no
\* coroutine to delete it, that is in a state in which the photos sent
\* next are appended and never dispatched.
C16_FailureLosesOneSubmission ==
    \A i \in H :
        handlers[i].pc = "raised"
        => ~(/\ thread_state[handlers[i].thread_id] = handlers[i].state
             /\ Wedged(handlers[i].thread_id))

\* C17: every attachment delivered while the type of the thread is TikTok
\* is dispatched to process_tiktok_photo, whatever was delivered before.
C17_TikTokArtifactAlwaysDispatched ==
    \A i \in H :
        GotAttachment(i) /\ handlers[i].type = "TikTok"
        => handlers[i].call = "process_tiktok_photo"

\* C18: the append of line 93 and the tests of lines 95-101 run in one step
\* of the coroutine, so no two coroutines see the same length of one list;
\* of the photos delivered to an Instagram thread with an empty list, the
\* one that made the list one long is only answered "Received photo 1/2",
\* and the one that made it two long calls process_instagram_photos once,
\* with the two photos in the order of their arrival.
C18_AccumulationAtomic ==
    /\ \A i \in H, j \in H :
          /\ i # j
          /\ handlers[i].state = handlers[j].state
          /\ handlers[i].appended >= 1
          => handlers[i].appended # handlers[j].appended
    /\ \A j \in H :
          handlers[j].type = "Instagram" /\ handlers[j].appended = 2
          => /\ handlers[j].call = "process_instagram_photos"
             /\ \E i \in 1..(j - 1) :
                   /\ handlers[i].state = handlers[j].state
                   /\ handlers[i].appended = 1
                   /\ handlers[i].type = "Instagram" => ~Dispatched(i)
                   /\ handlers[j].photos =
                         <<handlers[i].attachments[1], handlers[j].attachments[1]>>

\* C18 witness: two different photos were delivered to an Instagram thread
\* with an empty list; the first was answered "Received photo 1/2", the
\* second dispatched both in the order of arrival, and the extraction ended.
C18_Witness ==
    \E i \in H, j \in H :
        /\ j = i + 1
        /\ handlers[i].state = handlers[j].state
        /\ handlers[i].type = "Instagram"
        /\ handlers[i].appended = 1
        /\ handlers[i].replies = <<"Received photo 1/2">>
        /\ handlers[j].type = "Instagram"
        /\ handlers[j].appended = 2
        /\ handlers[j].call = "process_instagram_photos"
        /\ handlers[j].photos = <<"blur_png", "views_png">>
        /\ handlers[j].pc = "done"

(***************************************************************************)
(* Properties of the YouTube extractor (SpecYT).                           *)
(***************************************************************************)
\* the content field of a row: the cell under the first of 'Video',
\* 'Content Title', 'Content', '' that is a column of the file
ContentField(row) ==
    IF "Video" \in DOMAIN row THEN row["Video"]
    ELSE IF "Content Title" \in DOMAIN row THEN row["Content Title"]
    ELSE IF "Content" \in DOMAIN row THEN row["Content"]
    ELSE IF "" \in DOMAIN row THEN row[""]
    ELSE <<"?">>

\* the rows whose content field is 'Total' or 'All videos'
AggregateRows(rows) ==
    {k \in 1..Len(rows) :
        ContentField(rows[k]) \in
            { <<"T","o","t","a","l">>, <<"A","l","l"," ","v","i","d","e","o","s">> }}

\* the numbers of the first aggregate row, zeros when there is none
ExpectedOfRows(rows) ==
    IF AggregateRows(rows) = {}
    THEN [raised |-> FALSE, views |-> 0, likes |-> 0, comments |-> 0, shares |-> 0]
    ELSE LET k   == Leftmost(AggregateRows(rows))
             row == rows[k]
         IN  [raised   |-> FALSE,
              views    |-> YtCellValue(k, "Views"),
              likes    |-> YtCellValue(k, "Likes"),
              comments |-> IF "Comments added" \in DOMAIN row
                           THEN YtCellValue(k, "Comments added")
                           ELSE IF "Comments" \in DOMAIN row
                           THEN YtCellValue(k, "Comments")
                           ELSE 0,
              shares   |-> YtCellValue(k, "Shares")]

\* C13: the numbers passed to save_to_notion are those of the first row
\* whose content field is 'Total' or 'All videos', the content field being
\* the cell under the first present column among 'Video', 'Content Title',
\* 'Content' and ''; the comments are the cell of 'Comments added' when the
\* file has that column and else the cell of 'Comments'; without such a row
\* all four numbers are 0.
C13_AggregateRowUnderEveryHeader ==
    yt.pc = "done" => yt.result = ExpectedOfRows(yt.rows)

(***************************************************************************)
(* Properties of the two parse_number functions (SpecPN).                  *)
(***************************************************************************)
\* the string has no digit
NoDigit(s) == \A k \in 1..Len(s) : ~IsDigit(s[k])

\* C14: for every string, each of the two parse_number functions returns
\* without raising, what it returns is an integer that is not negative,
\* and it is 0 when the string has no digit (as '', 'a' and '--').
C14_ParseNumberTotal ==
    pn.pc = "done"
    => /\ ~pn.tiktok.raised
       /\ pn.tiktok.value \in Nat
       /\ ~pn.instagram.raised
       /\ pn.instagram.value \in Nat
       /\ NoDigit(pn.s) => pn.tiktok.value = 0 /\ pn.instagram.value = 0

\* a numeric token: digits, with thousands separators and a decimal period
\* or not, ending with K or M or not
NumericToken(s) ==
    /\ s # <<>>
    /\ IsDigit(s[1])
    /\ \A k \in 1..(Len(s) - 1) : IsDigit(s[k]) \/ s[k] \in {",", "."}
    /\ IsDigit(s[Len(s)]) \/ (Len(s) > 1 /\ s[Len(s)] \in {"K", "M"})
    /\ Cardinality({k \in 1..Len(s) : s[k] = "."}) <= 1

\* C19: on every numeric token, with thousands separators or a last K or M
\* or neither, parse_number of process_instagram_photos returns what
\* parse_number of process_tiktok_photo returns.
C19_InstagramUsesSharedNormalizer ==
    pn.pc = "done" /\ NumericToken(pn.s)
    => /\ ~pn.instagram.raised
       /\ ~pn.tiktok.raised
       /\ pn.instagram.value = pn.tiktok.value

(***************************************************************************)
(* Properties of the TikTok extractor (SpecTT).                            *)
(***************************************************************************)
\* the integer a number token of the screens stands for
TtValue(token) ==
    CASE token = <<"1","2",".","3","K">> -> 12300
      [] token = <<"4","5","0">> -> 450
      [] token = <<"6","7">> -> 67

\* C15: for every set of unreadable labels among views, likes, comments
\* and shares, the number passed to save_to_notion for a field is 0 when
\* its label is unreadable and the value of the token under its label when
\* the label is readable.
C15_TikTokDegradesPerField ==
    tt.pc = "done"
    => \A f \in TtAnchors :
          tt.result[f] = IF tt.present[f] THEN TtValue(tt.number[f]) ELSE 0

=============================================================================
